---- MODULE Spec2Model ----
(***************************************************************************)
(* The actor handle of ractor (ractor/src/actor/actor_cell.rs): the status *)
(* register, the three ports, the supervision links, and the messaging     *)
(* operations layered on the handle.                                       *)
(***************************************************************************)
EXTENDS Integers, Sequences, FiniteSets, TLC

\* ------------------------------------------------------------------ bounds
NumActors == 3
MaxOps == 4
NumSenders == 2
NumReceivers == 1
NumCalls == 1
NumThreads == 2

Actors == 1..NumActors
Pairs == {p \in Actors \X Actors : p[1] # p[2]}
\* links in which the supervisor is the older actor: these never form a cycle
AcyclicPairs == {p \in Pairs : p[2] < p[1]}
Senders == 1..NumSenders
Receivers == 1..NumReceivers
Calls == 1..NumCalls
Threads == 1..NumThreads

\* -------------------------------------------------------- ActorStatus (u8)
Unstarted == 0
Starting == 1
Running == 2
Upgrading == 3
Stopping == 4
Stopped == 5
ActorStatus == Unstarted..Stopped
ACTIVE_STATES == {Starting, Running, Upgrading}

\* mpsc::channel(2): the capacity of the signal port
SignalCapacity == 2

VARIABLES
    status,       \* ActorProperties.status, one AtomicU8 per actor
    signal,       \* contents of the bounded signal channel of each actor
    supervision,  \* contents of the unbounded supervision channel
    message,      \* contents of the unbounded message channel
    rx_open,      \* the ActorPortSet (the three receivers) is still alive
    parents,      \* SupervisionTree.parents of each actor
    children,     \* SupervisionTree.children of each actor
    ret,          \* what the last ActorCell method to return returned
    linked,       \* history: <<c, s>> when c.link(s) was the last call on it
    hist,         \* history: sequential link / unlink calls per <<self, sup>>
    nops,         \* history: number of client operations made so far
    sent,         \* history: messages each sender has sent to each actor
    yielded,      \* history: last message of each sender the port yielded
    stops,        \* history: number of stop() calls on each actor
    notified,     \* history: the parents the last notification reached / missed
    calls,        \* each call(): stage, target, timeout, reply slot, outcome
    thread,       \* what each thread using the handles is in the middle of
    stored,       \* history: the statuses set_status has stored, per actor
    obs,          \* what the last get_status() on a handle clone returned
    seen,         \* history: the highest status any clone observed, per actor
    timers,       \* the send_interval task sending to each actor
    forwards      \* the call_and_forward made with each call's reply slot

treeVars == <<parents, children>>
portVars == <<status, signal, supervision, message, rx_open>>
histVars == <<linked, hist>>
fifoVars == <<sent, yielded, stops, notified>>
obsVars == <<obs, seen>>
taskVars == <<timers, forwards>>
vars == <<status, signal, supervision, message, rx_open, parents, children,
          ret, linked, hist, nops, sent, yielded, stops, notified, calls,
          thread, stored, obs, seen, timers, forwards>>

NoRet == "none"

\* a thread between two operations
Idle == [op |-> "idle", a |-> 0, b |-> 0, stack |-> <<>>, dirty |-> FALSE]

\* a call that was not made yet
NoCall == [st |-> "idle", target |-> 0, timeout |-> FALSE, slot |-> "none",
           outcome |-> "none", late |-> FALSE]

\* no get_status() was made yet
NoObs == [t |-> 0, a |-> 0, s |-> Unstarted]

\* a send_interval task that was not spawned yet
NoTimer == [pc |-> "unspawned", sentAny |-> FALSE, late |-> 0,
            ended |-> "no"]

\* a reply slot no call_and_forward was made with
NoForward == [to |-> 0, direct |-> "none", task |-> "none"]

\* --------------------------------------------------------- ActorProperties
\* a slip in the match: the default arm yields Unstarted
get_status_default_unstarted(a) ==
    IF status[a] \in Unstarted..Stopping THEN status[a] ELSE Unstarted

\* match self.status.load(Ordering::Relaxed): the loads of every clone read
\* the one register, and ranks past Stopping read as Stopped
get_status(a) ==
    IF status[a] \in Unstarted..Stopping THEN status[a] ELSE Stopped

\* a slip that stores the rank after the one asked for, wrapping around
set_status_next_rank(a, s) == [status EXCEPT ![a] = (s + 1) % (Stopped + 1)]

\* self.status.store(status as u8, Ordering::Relaxed)
set_status(a, s) == [status EXCEPT ![a] = s]

\* the statuses stored so far, after set_status(a, s) returned
StoredAfter(a, s) == [stored EXCEPT ![a] = @ \cup {s}]

\* a slip that sends the signal without the capacity check
send_signal_unbounded(a, sig) ==
    IF rx_open[a]
    THEN [res |-> "Ok", q |-> Append(signal[a], sig)]
    ELSE [res |-> "Err", q |-> signal[a]]

\* self.signal.try_send(signal): fails when the channel is full or closed
send_signal(a, sig) ==
    IF rx_open[a] /\ Len(signal[a]) < SignalCapacity
    THEN [res |-> "Ok", q |-> Append(signal[a], sig)]
    ELSE [res |-> "Err", q |-> signal[a]]

\* self.supervision.send(message): fails when the channel is closed
send_supervisor_evt(a, evt) ==
    IF rx_open[a]
    THEN [res |-> "Ok", q |-> Append(supervision[a], evt)]
    ELSE [res |-> "Err", q |-> supervision[a]]

\* a slip that puts the newest message first
send_message_lifo(a, m) ==
    IF rx_open[a]
    THEN [res |-> "Ok", q |-> <<m>> \o message[a]]
    ELSE [res |-> "Err", q |-> message[a]]

\* a slip that reports success and keeps the message on a closed channel
send_message_ignores_closed(a, m) ==
    [res |-> "Ok", q |-> Append(message[a], m)]

\* self.message.send(message): fails when the channel is closed
send_message(a, m) ==
    IF rx_open[a]
    THEN [res |-> "Ok", q |-> Append(message[a], m)]
    ELSE [res |-> "Err", q |-> message[a]]

\* --------------------------------------------------------- SupervisionTree
insert_parent(par, owner, h) == [par EXCEPT ![owner] = @ \cup {h}]
insert_child(chi, owner, h) == [chi EXCEPT ![owner] = @ \cup {h}]
remove_parent(par, owner, h) == [par EXCEPT ![owner] = @ \ {h}]
remove_child(chi, owner, h) == [chi EXCEPT ![owner] = @ \ {h}]

\* SupervisionTree::notify_supervisors: send_supervisor_evt(evt) on every
\* parent of a, whatever each send returns
tree_notify_supervisors(a, evt) ==
    [p \in Actors |->
        IF p \in parents[a] THEN send_supervisor_evt(p, evt).q
        ELSE supervision[p]]

\* --------------------------------------------------------------- ActorCell
\* a slip that registers both ends of the edge as children
link_tree_children_only(self, supervisor) ==
    /\ parents' = parents
    /\ children' = insert_child(insert_child(children, supervisor, self),
                                self, supervisor)

\* self.link(supervisor)
link_tree(self, supervisor) ==
    /\ parents' = insert_parent(parents, supervisor, self)
    /\ children' = insert_child(children, self, supervisor)

\* a slip that empties the two sets instead of removing one member of each
unlink_tree_clears(self, supervisor) ==
    /\ parents' = [parents EXCEPT ![supervisor] = {}]
    /\ children' = [children EXCEPT ![self] = {}]

\* self.unlink(supervisor)
unlink_tree(self, supervisor) ==
    /\ parents' = remove_parent(parents, supervisor, self)
    /\ children' = remove_child(children, self, supervisor)

link(self, supervisor) ==
    /\ nops < MaxOps
    /\ link_tree(self, supervisor)
    /\ linked' = linked \cup {<<self, supervisor>>}
    /\ hist' = [hist EXCEPT ![<<self, supervisor>>].links = @ + 1]
    /\ nops' = nops + 1
    /\ ret' = "unit"
    /\ UNCHANGED <<calls, thread, portVars, fifoVars, stored, obsVars,
                   taskVars>>

unlink(self, supervisor) ==
    /\ nops < MaxOps
    /\ unlink_tree(self, supervisor)
    /\ linked' = linked \ {<<self, supervisor>>}
    /\ hist' = [hist EXCEPT ![<<self, supervisor>>].unlinks = @ + 1]
    /\ nops' = nops + 1
    /\ ret' = "unit"
    /\ UNCHANGED <<calls, thread, portVars, fifoVars, stored, obsVars,
                   taskVars>>

\* self.stop(): let _ = self.inner.send_signal(Signal::Exit)
stop(a) ==
    /\ nops < MaxOps
    /\ signal' = [signal EXCEPT ![a] = send_signal(a, "Exit").q]
    /\ ret' = "unit"
    /\ nops' = nops + 1
    /\ stops' = [stops EXCEPT ![a] = @ + 1]
    /\ UNCHANGED <<calls, thread, status, supervision, message, rx_open,
                   treeVars, histVars, sent, yielded, notified, stored,
                   obsVars, taskVars>>

\* the boxed message number n of sender s
Boxed(s, n) == [from |-> s, n |-> n]

\* self.send_message(message) called by sender s
SendMessage(s, a) ==
    /\ nops < MaxOps
    /\ LET r == send_message(a, Boxed(s, sent[s][a] + 1))
       IN /\ message' = [message EXCEPT ![a] = r.q]
          /\ ret' = r.res
    /\ sent' = [sent EXCEPT ![s][a] = @ + 1]
    /\ nops' = nops + 1
    /\ UNCHANGED <<calls, thread, status, signal, supervision, rx_open,
                   treeVars, histVars, yielded, stops, notified, stored,
                   obsVars, taskVars>>

\* self.cast(msg) called by sender s: rpc::cast(self, msg)
cast(s, a) ==
    /\ nops < MaxOps
    /\ LET r == send_message(a, Boxed(s, sent[s][a] + 1))
       IN /\ message' = [message EXCEPT ![a] = r.q]
          /\ ret' = r.res
    /\ sent' = [sent EXCEPT ![s][a] = @ + 1]
    /\ nops' = nops + 1
    /\ UNCHANGED <<calls, thread, status, signal, supervision, rx_open,
                   treeVars, histVars, yielded, stops, notified, stored,
                   obsVars, taskVars>>

\* the supervision event reporting that actor who terminated
ActorTerminated(who) == <<"ActorTerminated", who>>
\* the supervision event reporting that actor who started
ActorStarted(who) == <<"ActorStarted", who>>

\* self.send_supervisor_evt(message)
SendSupervisorEvt(a, evt) ==
    /\ nops < MaxOps
    /\ LET r == send_supervisor_evt(a, evt)
       IN /\ supervision' = [supervision EXCEPT ![a] = r.q]
          /\ ret' = r.res
    /\ nops' = nops + 1
    /\ UNCHANGED <<calls, thread, status, signal, message, rx_open, treeVars,
                   histVars, fifoVars, stored, obsVars, taskVars>>

\* the parents of a whose supervision port is open / closed right now
Reached(a) ==
    [ok |-> {p \in parents[a] : rx_open[p]},
     err |-> {p \in parents[a] : ~rx_open[p]}]

\* a slip that stops at the first parent
notify_supervisors_one_parent(a, evt) ==
    /\ nops < MaxOps
    /\ supervision' =
          IF parents[a] = {} THEN supervision
          ELSE LET p == CHOOSE x \in parents[a] : TRUE
               IN [supervision EXCEPT ![p] = send_supervisor_evt(p, evt).q]
    /\ ret' = "unit"
    /\ nops' = nops + 1
    /\ notified' = Reached(a)
    /\ UNCHANGED <<calls, thread, status, signal, message, rx_open, treeVars,
                   histVars, sent, yielded, stops, stored, obsVars,
                   taskVars>>

\* self.notify_supervisors(evt)
notify_supervisors(a, evt) ==
    /\ nops < MaxOps
    /\ supervision' = tree_notify_supervisors(a, evt)
    /\ ret' = "unit"
    /\ nops' = nops + 1
    /\ notified' = Reached(a)
    /\ UNCHANGED <<calls, thread, status, signal, message, rx_open, treeVars,
                   histVars, sent, yielded, stops, stored, obsVars,
                   taskVars>>

\* ----------------------------- ActorCell handles shared by several threads
\* a link or unlink step of another thread happened during these cascades
Touched(thr) ==
    [u \in Threads |->
        IF thr[u].op = "terminate" THEN [thr[u] EXCEPT !.dirty = TRUE]
        ELSE thr[u]]

\* self.link(supervisor), first statement, by thread t
link_first(t, self, supervisor) ==
    /\ thread[t].op = "idle"
    /\ nops < MaxOps
    /\ parents' = insert_parent(parents, supervisor, self)
    /\ thread' = [Touched(thread) EXCEPT ![t] =
                     [Idle EXCEPT !.op = "link", !.a = self, !.b = supervisor]]
    /\ nops' = nops + 1
    /\ ret' = NoRet
    /\ UNCHANGED <<portVars, children, histVars, fifoVars, calls, stored,
                   obsVars, taskVars>>

\* self.link(supervisor), second statement: the call returns
link_second(t) ==
    /\ thread[t].op = "link"
    /\ children' = insert_child(children, thread[t].a, thread[t].b)
    /\ linked' = linked \cup {<<thread[t].a, thread[t].b>>}
    /\ thread' = [Touched(thread) EXCEPT ![t] = Idle]
    /\ ret' = "unit"
    /\ UNCHANGED <<portVars, parents, hist, nops, fifoVars, calls, stored,
                   obsVars, taskVars>>

\* self.unlink(supervisor), first statement, by thread t
unlink_first(t, self, supervisor) ==
    /\ thread[t].op = "idle"
    /\ nops < MaxOps
    /\ parents' = remove_parent(parents, supervisor, self)
    /\ thread' = [Touched(thread) EXCEPT ![t] =
                     [Idle EXCEPT !.op = "unlink", !.a = self,
                                  !.b = supervisor]]
    /\ nops' = nops + 1
    /\ ret' = NoRet
    /\ UNCHANGED <<portVars, children, histVars, fifoVars, calls, stored,
                   obsVars, taskVars>>

\* self.unlink(supervisor), second statement: the call returns
unlink_second(t) ==
    /\ thread[t].op = "unlink"
    /\ children' = remove_child(children, thread[t].a, thread[t].b)
    /\ linked' = linked \ {<<thread[t].a, thread[t].b>>}
    /\ thread' = [Touched(thread) EXCEPT ![t] = Idle]
    /\ ret' = "unit"
    /\ UNCHANGED <<portVars, parents, hist, nops, fifoVars, calls, stored,
                   obsVars, taskVars>>

\* a slip that stops the actor whatever its status
terminate_self_always(a) == send_signal(a, "Exit").q

\* the first statement of terminate: stop() unless Stopping or Stopped
terminate_self(a) ==
    IF get_status(a) <= Upgrading THEN send_signal(a, "Exit").q ELSE signal[a]

\* the stop() calls made on each actor, after terminate took its first
\* statement on a
StopsAfterTerminate(a) ==
    [stops EXCEPT ![a] = IF get_status(a) <= Upgrading THEN @ + 1 ELSE @]

\* a terminate() just entered on actor a: none of its children visited yet
Frame(a) == [actor |-> a, visited |-> {}]

\* self.terminate() is entered by thread t
terminate(t, a) ==
    /\ thread[t].op = "idle"
    /\ nops < MaxOps
    /\ signal' = [signal EXCEPT ![a] = terminate_self(a)]
    /\ stops' = StopsAfterTerminate(a)
    /\ thread' = [thread EXCEPT ![t] =
                     [Idle EXCEPT !.op = "terminate", !.a = a,
                                  !.stack = <<Frame(a)>>]]
    /\ nops' = nops + 1
    /\ ret' = NoRet
    /\ UNCHANGED <<status, supervision, message, rx_open, treeVars, histVars,
                   sent, yielded, notified, calls, stored, obsVars,
                   taskVars>>

\* terminate_children of the innermost terminate reaches the child c, whose
\* terminate() is entered
terminate_child(t, c) ==
    /\ thread[t].op = "terminate"
    /\ LET n == Len(thread[t].stack)
           top == thread[t].stack[n]
       IN /\ c \in children[top.actor] \ top.visited
          /\ thread' = [thread EXCEPT ![t].stack =
                Append([@ EXCEPT ![n].visited = @ \cup {c}], Frame(c))]
    /\ signal' = [signal EXCEPT ![c] = terminate_self(c)]
    /\ stops' = StopsAfterTerminate(c)
    /\ ret' = NoRet
    /\ UNCHANGED <<status, supervision, message, rx_open, treeVars, histVars,
                   nops, sent, yielded, notified, calls, stored, obsVars,
                   taskVars>>

\* a slip that returns only when every child has stopped
terminate_return_joins(t) ==
    /\ thread[t].op = "terminate"
    /\ LET n == Len(thread[t].stack)
           top == thread[t].stack[n]
       IN /\ children[top.actor] \subseteq top.visited
          /\ \A c \in children[top.actor] : status[c] = Stopped
          /\ thread' = [thread EXCEPT ![t] =
                IF n = 1 THEN Idle
                ELSE [@ EXCEPT !.stack = SubSeq(@, 1, n - 1)]]
          /\ ret' = IF n = 1 THEN "unit" ELSE NoRet
    /\ UNCHANGED <<portVars, treeVars, histVars, nops, fifoVars, calls,
                   stored, obsVars, taskVars>>

\* the innermost terminate has visited every child and returns
terminate_return(t) ==
    /\ thread[t].op = "terminate"
    /\ LET n == Len(thread[t].stack)
           top == thread[t].stack[n]
       IN /\ children[top.actor] \subseteq top.visited
          /\ thread' = [thread EXCEPT ![t] =
                IF n = 1 THEN Idle
                ELSE [@ EXCEPT !.stack = SubSeq(@, 1, n - 1)]]
          /\ ret' = IF n = 1 THEN "unit" ELSE NoRet
    /\ UNCHANGED <<portVars, treeVars, histVars, nops, fifoVars, calls,
                   stored, obsVars, taskVars>>

\* --------------------------------------------------------------- rpc::call
\* the message msg_builder makes around the reply slot of call c
CallMsg(c) == [call |-> c]

\* self.call(msg_builder, timeout_option), up to its await: the reply slot is
\* made, the message is built around it and sent; a failed send returns the
\* messaging error at once and drops the message with its slot
call(c, a, t) ==
    /\ calls[c].st = "idle"
    /\ nops < MaxOps
    /\ nops' = nops + 1
    /\ LET r == send_message(a, CallMsg(c))
       IN /\ message' = [message EXCEPT ![a] = r.q]
          /\ calls' = [calls EXCEPT ![c] =
                IF r.res = "Ok"
                THEN [st |-> "pending", target |-> a, timeout |-> t,
                      slot |-> "queued", outcome |-> "none", late |-> FALSE]
                ELSE [st |-> "done", target |-> a, timeout |-> t,
                      slot |-> "dropped", outcome |-> "MessagingErr",
                      late |-> FALSE]]
          /\ ret' = r.res
    /\ UNCHANGED <<thread, status, signal, supervision, rx_open, treeVars,
                   histVars, fifoVars, stored, obsVars, taskVars>>

\* the await ends with the value written to the reply slot
call_reply(c) ==
    /\ calls[c].st = "pending"
    /\ calls[c].slot = "written"
    /\ calls' = [calls EXCEPT ![c].st = "done", ![c].outcome = "Success"]
    /\ ret' = NoRet
    /\ UNCHANGED <<thread, portVars, treeVars, histVars, nops, fifoVars,
                   stored, obsVars, taskVars>>

\* the await ends because the reply slot was dropped unwritten, by the handler
\* ("dropped") or with the receivers when the loop ended ("closed")
call_no_reply(c) ==
    /\ calls[c].st = "pending"
    /\ calls[c].slot \in {"dropped", "closed"}
    /\ calls' = [calls EXCEPT ![c].st = "done", ![c].outcome = "NoReply"]
    /\ ret' = NoRet
    /\ UNCHANGED <<thread, portVars, treeVars, histVars, nops, fifoVars,
                   stored, obsVars, taskVars>>

\* the await ends because the timeout elapsed first; the slot stays where the
\* receiver has it
call_timeout(c) ==
    /\ calls[c].st = "pending"
    /\ calls[c].timeout
    /\ calls[c].slot \in {"queued", "held"}
    /\ calls' = [calls EXCEPT ![c].st = "done", ![c].outcome = "Timeout"]
    /\ ret' = NoRet
    /\ UNCHANGED <<thread, portVars, treeVars, histVars, nops, fifoVars,
                   stored, obsVars, taskVars>>

\* --------------------------------------------------- rpc::call_and_forward
\* the message forward_mapping makes of the reply to call c
Forwarded(c) == [fwd |-> c]

\* self.call_and_forward(msg_builder, response_forward, forward_mapping,
\* timeout_option): the message is sent around a new reply slot; a failed
\* send is returned to the caller as Err(MessagingErr) and no task is made,
\* otherwise the task awaiting the reply is spawned and its handle returned
call_and_forward(c, a, f, t) ==
    /\ calls[c].st = "idle"
    /\ nops < MaxOps
    /\ nops' = nops + 1
    /\ LET r == send_message(a, CallMsg(c))
       IN /\ message' = [message EXCEPT ![a] = r.q]
          /\ calls' = [calls EXCEPT ![c] =
                IF r.res = "Ok"
                THEN [st |-> "pending", target |-> a, timeout |-> t,
                      slot |-> "queued", outcome |-> "none", late |-> FALSE]
                ELSE [st |-> "done", target |-> a, timeout |-> t,
                      slot |-> "dropped", outcome |-> "MessagingErr",
                      late |-> FALSE]]
          /\ forwards' = [forwards EXCEPT ![c] =
                IF r.res = "Ok"
                THEN [to |-> f, direct |-> "Ok", task |-> "running"]
                ELSE [to |-> f, direct |-> "MessagingErr", task |-> "none"]]
          /\ ret' = r.res
    /\ UNCHANGED <<thread, status, signal, supervision, rx_open, treeVars,
                   histVars, fifoVars, stored, obsVars, timers>>

\* the task's await has ended: a reply is mapped and sent to the forward
\* target, and the task ends with the call's outcome, which for Success
\* holds the result of that send
forward_task(c) ==
    /\ forwards[c].task = "running"
    /\ calls[c].st = "done"
    /\ LET f == forwards[c].to
           r == send_message(f, Forwarded(c))
       IN IF calls[c].outcome = "Success"
          THEN /\ message' = [message EXCEPT ![f] = r.q]
               /\ forwards' = [forwards EXCEPT ![c].task =
                     IF r.res = "Ok" THEN "Success(Ok)" ELSE "Success(Err)"]
          ELSE /\ message' = message
               /\ forwards' = [forwards EXCEPT ![c].task = calls[c].outcome]
    /\ ret' = NoRet
    /\ UNCHANGED <<thread, status, signal, supervision, rx_open, treeVars,
                   histVars, nops, fifoVars, calls, stored, obsVars, timers>>

\* ---------------------------------------------- the actor's execution loop
\* the loop takes the next signal: Exit makes the actor Stopping
LoopRecvSignal(a) ==
    /\ rx_open[a]
    /\ signal[a] # <<>>
    /\ signal' = [signal EXCEPT ![a] = Tail(@)]
    /\ status' = set_status(a, Stopping)
    /\ stored' = StoredAfter(a, Stopping)
    /\ ret' = NoRet
    /\ UNCHANGED <<calls, thread, supervision, message, rx_open, treeVars,
                   histVars, nops, fifoVars, obsVars, taskVars>>

\* the loop takes the next supervision event
LoopRecvSupervision(a) ==
    /\ rx_open[a]
    /\ supervision[a] # <<>>
    /\ supervision' = [supervision EXCEPT ![a] = Tail(@)]
    /\ ret' = NoRet
    /\ UNCHANGED <<calls, thread, status, signal, message, rx_open, treeVars,
                   histVars, nops, fifoVars, stored, obsVars, taskVars>>

\* the loop takes the next message: the port yields its head
LoopRecvMessage(a) ==
    /\ rx_open[a]
    /\ message[a] # <<>>
    /\ "from" \in DOMAIN Head(message[a])
    /\ message' = [message EXCEPT ![a] = Tail(@)]
    /\ yielded' = [yielded EXCEPT ![a][Head(message[a]).from] =
                      Head(message[a]).n]
    /\ ret' = NoRet
    /\ UNCHANGED <<calls, thread, status, signal, supervision, rx_open,
                   treeVars, histVars, nops, sent, stops, notified, stored,
                   obsVars, taskVars>>

\* the loop ends: the actor is Stopped, its supervisors are notified, and the
\* three receivers are dropped, which closes the channels and discards what
\* they still hold
LoopExit(a) ==
    /\ rx_open[a]
    /\ status[a] = Stopping
    /\ status' = set_status(a, Stopped)
    /\ stored' = StoredAfter(a, Stopped)
    /\ rx_open' = [rx_open EXCEPT ![a] = FALSE]
    /\ signal' = [signal EXCEPT ![a] = <<>>]
    /\ supervision' =
          [tree_notify_supervisors(a, ActorTerminated(a)) EXCEPT ![a] = <<>>]
    /\ message' = [message EXCEPT ![a] = <<>>]
    /\ ret' = NoRet
    /\ notified' = Reached(a)
    /\ calls' = [c \in Calls |->
                   IF calls[c].target = a /\ calls[c].slot \in {"queued", "held"}
                   THEN [calls[c] EXCEPT !.slot = "closed"]
                   ELSE calls[c]]
    /\ UNCHANGED <<thread, treeVars, histVars, nops, sent, yielded, stops,
                   obsVars, taskVars>>

\* the loop takes the next message, a call: its handler now holds the slot
LoopRecvCall(a) ==
    /\ rx_open[a]
    /\ message[a] # <<>>
    /\ "call" \in DOMAIN Head(message[a])
    /\ \A c \in Calls : ~(calls[c].target = a /\ calls[c].slot = "held")
    /\ message' = [message EXCEPT ![a] = Tail(@)]
    /\ calls' = [calls EXCEPT ![Head(message[a]).call].slot = "held"]
    /\ ret' = NoRet
    /\ UNCHANGED <<thread, status, signal, supervision, rx_open, treeVars,
                   histVars, nops, fifoVars, stored, obsVars, taskVars>>

\* a slip that hands a late reply to a caller that already timed out
HandlerReplyReachesCaller(a, c) ==
    /\ rx_open[a]
    /\ calls[c].target = a
    /\ calls[c].slot = "held"
    /\ calls' = [calls EXCEPT ![c].slot = "written",
                              ![c].outcome =
                                  IF calls[c].st = "done" THEN "Success" ELSE @,
                              ![c].late = (calls[c].st = "done")]
    /\ ret' = "Ok"
    /\ UNCHANGED <<thread, portVars, treeVars, histVars, nops, fifoVars,
                   stored, obsVars, taskVars>>

\* the handler writes the reply: the write fails, and nothing else happens,
\* when the caller no longer waits
HandlerReply(a, c) ==
    /\ rx_open[a]
    /\ calls[c].target = a
    /\ calls[c].slot = "held"
    /\ calls' = [calls EXCEPT ![c] =
          IF calls[c].st = "pending"
          THEN [@ EXCEPT !.slot = "written"]
          ELSE [@ EXCEPT !.slot = "dropped", !.late = TRUE]]
    /\ ret' = IF calls[c].st = "pending" THEN "Ok" ELSE "Err"
    /\ UNCHANGED <<thread, portVars, treeVars, histVars, nops, fifoVars,
                   stored, obsVars, taskVars>>

\* the handler returns without replying: the slot is dropped
HandlerNoReply(a, c) ==
    /\ rx_open[a]
    /\ calls[c].target = a
    /\ calls[c].slot = "held"
    /\ calls' = [calls EXCEPT ![c].slot = "dropped"]
    /\ ret' = NoRet
    /\ UNCHANGED <<thread, portVars, treeVars, histVars, nops, fifoVars,
                   stored, obsVars, taskVars>>

\* the loop takes the next message, a forwarded reply
LoopRecvForwarded(a) ==
    /\ rx_open[a]
    /\ message[a] # <<>>
    /\ "fwd" \in DOMAIN Head(message[a])
    /\ message' = [message EXCEPT ![a] = Tail(@)]
    /\ ret' = NoRet
    /\ UNCHANGED <<status, signal, supervision, rx_open, treeVars, histVars,
                   nops, fifoVars, calls, thread, stored, obsVars, taskVars>>

\* ------------------------------------------------ the actor's lifecycle
\* the status the loop stores next on its way Unstarted -> Starting ->
\* Running <-> Upgrading; Stopping and Stopped are stored by LoopRecvSignal
\* and LoopExit
LoopStep(a, from, to) ==
    /\ rx_open[a]
    /\ status[a] = from
    /\ status' = set_status(a, to)
    /\ stored' = StoredAfter(a, to)
    /\ ret' = NoRet
    /\ UNCHANGED <<signal, supervision, message, rx_open, treeVars, histVars,
                   nops, fifoVars, calls, thread, obsVars, taskVars>>

LoopStart(a) == LoopStep(a, Unstarted, Starting)
LoopStarted(a) == LoopStep(a, Starting, Running)
LoopUpgrade(a) == LoopStep(a, Running, Upgrading)
LoopUpgraded(a) == LoopStep(a, Upgrading, Running)

\* self.get_status() on the handle clone held by thread t
GetStatus(t, a) ==
    /\ obs' = [t |-> t, a |-> a, s |-> get_status(a)]
    /\ seen' = [seen EXCEPT ![a] =
                    IF get_status(a) > @ THEN get_status(a) ELSE @]
    /\ ret' = NoRet
    /\ UNCHANGED <<portVars, treeVars, histVars, nops, fifoVars, calls,
                   thread, stored, taskVars>>

\* ------------------------------------------------------ time::send_interval
\* the message msg() builds for each send
Tick == [tick |-> TRUE]

\* send_interval(period, actor, msg): the task sending to actor a is spawned
send_interval(a) ==
    /\ timers[a].pc = "unspawned"
    /\ timers' = [timers EXCEPT ![a].pc = "check"]
    /\ ret' = NoRet
    /\ UNCHANGED <<portVars, treeVars, histVars, nops, fifoVars, calls,
                   thread, stored, obsVars, forwards>>

\* a slip that leaves the loop only when the send fails
IntervalCheckIgnoresStatus(a) ==
    /\ timers[a].pc = "check"
    /\ timers' = [timers EXCEPT ![a].pc = "sleep"]
    /\ ret' = NoRet
    /\ UNCHANGED <<portVars, treeVars, histVars, nops, fifoVars, calls,
                   thread, stored, obsVars, forwards>>

\* while ACTIVE_STATES.contains(&actor.get_status()): the task goes to sleep
\* or leaves the loop and finishes
IntervalCheck(a) ==
    /\ timers[a].pc = "check"
    /\ timers' = [timers EXCEPT ![a] =
                      IF get_status(a) \in ACTIVE_STATES
                      THEN [@ EXCEPT !.pc = "sleep"]
                      ELSE [@ EXCEPT !.pc = "done", !.ended = "status"]]
    /\ ret' = NoRet
    /\ UNCHANGED <<portVars, treeVars, histVars, nops, fifoVars, calls,
                   thread, stored, obsVars, forwards>>

\* a slip that goes on after a failed send
IntervalSendRetries(a) ==
    /\ timers[a].pc = "sleep"
    /\ Len(message[a]) < MaxOps
    /\ LET r == send_message(a, Tick)
       IN /\ message' = [message EXCEPT ![a] = r.q]
          /\ timers' = [timers EXCEPT ![a] =
                [pc |-> "check",
                 sentAny |-> @.sentAny \/ r.res = "Ok",
                 late |-> IF r.res = "Ok" /\ status[a] >= Stopping
                          THEN @.late + 1 ELSE @.late,
                 ended |-> "no"]]
    /\ ret' = NoRet
    /\ UNCHANGED <<status, signal, supervision, rx_open, treeVars, histVars,
                   nops, fifoVars, calls, thread, stored, obsVars, forwards>>

\* the sleep is over: actor.send_message(msg()), and break if it failed; the
\* history tells whether any message was enqueued, counts those enqueued
\* while the actor was Stopping, and tells what ended the loop
IntervalSend(a) ==
    /\ timers[a].pc = "sleep"
    /\ Len(message[a]) < MaxOps
    /\ LET r == send_message(a, Tick)
       IN /\ message' = [message EXCEPT ![a] = r.q]
          /\ timers' = [timers EXCEPT ![a] =
                [pc |-> IF r.res = "Ok" THEN "check" ELSE "done",
                 sentAny |-> @.sentAny \/ r.res = "Ok",
                 late |-> IF r.res = "Ok" /\ status[a] >= Stopping
                          THEN @.late + 1 ELSE @.late,
                 ended |-> IF r.res = "Ok" THEN "no" ELSE "send"]]
    /\ ret' = NoRet
    /\ UNCHANGED <<status, signal, supervision, rx_open, treeVars, histVars,
                   nops, fifoVars, calls, thread, stored, obsVars, forwards>>

\* the loop takes the next message, one an interval task sent
LoopRecvTick(a) ==
    /\ rx_open[a]
    /\ message[a] # <<>>
    /\ Head(message[a]) = Tick
    /\ message' = [message EXCEPT ![a] = Tail(@)]
    /\ ret' = NoRet
    /\ UNCHANGED <<status, signal, supervision, rx_open, treeVars, histVars,
                   nops, fifoVars, calls, thread, stored, obsVars, taskVars>>

\* ---------------------------------------------------------- specifications
Init ==
    /\ status = [a \in Actors |-> Unstarted]
    /\ signal = [a \in Actors |-> <<>>]
    /\ supervision = [a \in Actors |-> <<>>]
    /\ message = [a \in Actors |-> <<>>]
    /\ rx_open = [a \in Actors |-> TRUE]
    /\ parents = [a \in Actors |-> {}]
    /\ children = [a \in Actors |-> {}]
    /\ ret = NoRet
    /\ linked = {}
    /\ hist = [p \in Pairs |-> [links |-> 0, unlinks |-> 0]]
    /\ nops = 0
    /\ sent = [s \in Senders |-> [a \in Actors |-> 0]]
    /\ yielded = [a \in Actors |-> [s \in Senders |-> 0]]
    /\ stops = [a \in Actors |-> 0]
    /\ notified = [ok |-> {}, err |-> {}]
    /\ calls = [c \in Calls |-> NoCall]
    /\ thread = [t \in Threads |-> Idle]
    /\ stored = [a \in Actors |-> {Unstarted}]
    /\ obs = NoObs
    /\ seen = [a \in Actors |-> Unstarted]
    /\ timers = [a \in Actors |-> NoTimer]
    /\ forwards = [c \in Calls |-> NoForward]

\* Sequential use of link / unlink on any pair of distinct actors.
NextLink ==
    \/ \E p \in Pairs : link(p[1], p[2])
    \/ \E p \in Pairs : unlink(p[1], p[2])

SpecLink == Init /\ [][NextLink]_vars

\* Senders and stoppers using the ports of actors whose loops run.
NextPort ==
    \/ \E a \in Receivers : stop(a)
    \/ \E s \in Senders, a \in Receivers : SendMessage(s, a)
    \/ \E s \in Senders, a \in Receivers : cast(s, a)
    \/ \E a \in Receivers, w \in Actors :
           SendSupervisorEvt(a, ActorTerminated(w))
    \/ \E a \in Receivers : LoopRecvSignal(a)
    \/ \E a \in Receivers : LoopRecvSupervision(a)
    \/ \E a \in Receivers : LoopRecvMessage(a)
    \/ \E a \in Receivers : LoopExit(a)

SpecPort == Init /\ [][NextPort]_vars

\* Actors linking and unlinking, stopping, and notifying their supervisors.
NextNotify ==
    \/ \E p \in AcyclicPairs : link(p[1], p[2])
    \/ \E p \in AcyclicPairs : unlink(p[1], p[2])
    \/ \E a \in Actors : stop(a)
    \/ \E a \in Actors : notify_supervisors(a, ActorStarted(a))
    \/ \E a \in Actors : LoopRecvSignal(a)
    \/ \E a \in Actors : LoopRecvSupervision(a)
    \/ \E a \in Actors : LoopExit(a)

SpecNotify == Init /\ [][NextNotify]_vars

\* Callers of actors whose loops handle the calls, reply or not, and exit
\* when stopped.  The calls are numbered in the order they are made.
NextCall ==
    \/ \E c \in Calls, a \in Receivers, t \in BOOLEAN :
          /\ \A d \in Calls : d < c => calls[d].st # "idle"
          /\ call(c, a, t)
    \/ \E c \in Calls : call_reply(c)
    \/ \E c \in Calls : call_no_reply(c)
    \/ \E c \in Calls : call_timeout(c)
    \/ \E a \in Receivers : LoopRecvCall(a)
    \/ \E a \in Receivers, c \in Calls : HandlerReply(a, c)
    \/ \E a \in Receivers, c \in Calls : HandlerNoReply(a, c)
    \/ \E a \in Receivers : stop(a)
    \/ \E a \in Receivers : LoopRecvSignal(a)
    \/ \E a \in Receivers : LoopExit(a)

SpecCall == Init /\ [][NextCall]_vars

\* a caller whose reply slot was written or dropped is woken and scheduled
FairSpecCall ==
    /\ SpecCall
    /\ \A c \in Calls : WF_vars(call_reply(c)) /\ WF_vars(call_no_reply(c))

\* Threads linking, unlinking, stopping and terminating actors whose loops
\* take the signals and exit.
NextTree ==
    \/ \E t \in Threads, p \in AcyclicPairs : link_first(t, p[1], p[2])
    \/ \E t \in Threads : link_second(t)
    \/ \E t \in Threads, p \in AcyclicPairs : unlink_first(t, p[1], p[2])
    \/ \E t \in Threads : unlink_second(t)
    \/ \E t \in Threads, a \in Actors : terminate(t, a)
    \/ \E t \in Threads, c \in Actors : terminate_child(t, c)
    \/ \E t \in Threads : terminate_return(t)
    \/ \E a \in Actors : stop(a)
    \/ \E a \in Actors : LoopRecvSignal(a)
    \/ \E a \in Actors : LoopExit(a)

SpecTree == Init /\ [][NextTree]_vars

\* Handle clones reading the status of actors whose loops go through their
\* lifecycle and are stopped, once each.
NextStatus ==
    \/ \E a \in Receivers : LoopStart(a)
    \/ \E a \in Receivers : LoopStarted(a)
    \/ \E a \in Receivers : LoopUpgrade(a)
    \/ \E a \in Receivers : LoopUpgraded(a)
    \/ \E a \in Receivers : stops[a] = 0 /\ stop(a)
    \/ \E a \in Receivers : LoopRecvSignal(a)
    \/ \E a \in Receivers : LoopExit(a)
    \/ \E t \in Threads, a \in Receivers : GetStatus(t, a)

SpecStatus == Init /\ [][NextStatus]_vars

\* a has a child linked under it and is itself linked under a supervisor
InChain(a) ==
    \E b \in Actors, p \in Actors : {<<b, a>>, <<a, p>>} \subseteq linked

\* Actors linked into supervision chains and terminated.  The actors in the
\* middle of a chain are started, take the Exit signals and exit; the actors
\* at its ends stay as they were spawned.  The threads are taken in order.
NextScenario ==
    \/ \E a \in Actors : InChain(a) /\ LoopStart(a)
    \/ \E a \in Actors : InChain(a) /\ LoopStarted(a)
    \/ \E p \in AcyclicPairs : link(p[1], p[2])
    \/ \E t \in Threads, a \in Actors :
          /\ \A u \in Threads : u < t => thread[u].op # "idle"
          /\ terminate(t, a)
    \/ \E t \in Threads, c \in Actors : terminate_child(t, c)
    \/ \E t \in Threads : terminate_return(t)
    \/ \E a \in Actors : InChain(a) /\ LoopRecvSignal(a)
    \/ \E a \in Actors : InChain(a) /\ LoopExit(a)

SpecScenario == Init /\ [][NextScenario]_vars

\* a cascade that was entered goes on, and a loop that has a signal to take
\* or has become Stopping is scheduled
FairSpecScenario ==
    /\ SpecScenario
    /\ \A t \in Threads : WF_vars(terminate_return(t))
    /\ \A t \in Threads, c \in Actors : WF_vars(terminate_child(t, c))
    /\ \A a \in Actors :
           /\ WF_vars(InChain(a) /\ LoopRecvSignal(a))
           /\ WF_vars(InChain(a) /\ LoopExit(a))

\* Interval tasks sending to actors whose loops go through their lifecycle,
\* take the messages, and exit after the one stop() each actor gets.
NextInterval ==
    \/ \E a \in Receivers : send_interval(a)
    \/ \E a \in Receivers : IntervalCheck(a)
    \/ \E a \in Receivers : IntervalSend(a)
    \/ \E a \in Receivers : LoopStart(a)
    \/ \E a \in Receivers : LoopStarted(a)
    \/ \E a \in Receivers : LoopUpgrade(a)
    \/ \E a \in Receivers : LoopUpgraded(a)
    \/ \E a \in Receivers : LoopRecvTick(a)
    \/ \E a \in Receivers : stops[a] = 0 /\ stop(a)
    \/ \E a \in Receivers : LoopRecvSignal(a)
    \/ \E a \in Receivers : LoopExit(a)

SpecInterval == Init /\ [][NextInterval]_vars

\* a spawned task is scheduled, and its sleep ends
FairSpecInterval ==
    /\ SpecInterval
    /\ \A a \in Receivers :
           WF_vars(IntervalCheck(a)) /\ WF_vars(IntervalSend(a))

\* Callers forwarding the replies of actors whose loops handle the calls,
\* reply or not, take the forwarded replies, and exit after the one stop()
\* each actor gets.  The calls are numbered in the order they are made.
NextForward ==
    \/ \E c \in Calls, a \in Receivers, f \in Receivers, t \in BOOLEAN :
          /\ \A d \in Calls : d < c => calls[d].st # "idle"
          /\ call_and_forward(c, a, f, t)
    \/ \E c \in Calls : call_reply(c)
    \/ \E c \in Calls : call_no_reply(c)
    \/ \E c \in Calls : call_timeout(c)
    \/ \E c \in Calls : forward_task(c)
    \/ \E a \in Receivers : LoopRecvCall(a)
    \/ \E a \in Receivers : LoopRecvForwarded(a)
    \/ \E a \in Receivers, c \in Calls : HandlerReply(a, c)
    \/ \E a \in Receivers, c \in Calls : HandlerNoReply(a, c)
    \/ \E a \in Receivers : stops[a] = 0 /\ stop(a)
    \/ \E a \in Receivers : LoopRecvSignal(a)
    \/ \E a \in Receivers : LoopExit(a)

SpecForward == Init /\ [][NextForward]_vars

\* Threads terminating linked actors, of which some go through their
\* lifecycle, take the Exit signals and exit.  The links are made before any
\* actor starts or is stopped, in the order of the pairs and at most one
\* for each supervisor, so that they make a forest; one terminate() runs at
\* a time, on an actor nobody tried to stop yet, while the actors' loops go
\* on.
NextTerminate ==
    \/ \E a \in Receivers : LoopStart(a)
    \/ \E a \in Receivers : LoopStarted(a)
    \/ \E a \in Receivers : LoopUpgrade(a)
    \/ \E a \in Receivers : LoopUpgraded(a)
    \/ \E a \in Receivers : LoopRecvSignal(a)
    \/ \E a \in Receivers : LoopExit(a)
    \/ \E p \in AcyclicPairs :
          /\ \A a \in Actors : stops[a] = 0 /\ status[a] = Unstarted
          /\ \A q \in linked :
                /\ q[1] < p[1] \/ (q[1] = p[1] /\ q[2] < p[2])
                /\ q[2] # p[2]
          /\ link(p[1], p[2])
    \/ \E t \in Threads, a \in Actors :
          /\ \A u \in Threads : thread[u].op = "idle"
          /\ stops[a] = 0
          /\ terminate(t, a)
    \/ \E t \in Threads, c \in Actors : terminate_child(t, c)
    \/ \E t \in Threads : terminate_return(t)

SpecTerminate == Init /\ [][NextTerminate]_vars

\* Threads holding clones of the same handles, linking and unlinking; each
\* call is its two statements, and the statements of different threads
\* interleave.
NextRace ==
    \/ \E t \in Threads, p \in Pairs : link_first(t, p[1], p[2])
    \/ \E t \in Threads : link_second(t)
    \/ \E t \in Threads, p \in Pairs : unlink_first(t, p[1], p[2])
    \/ \E t \in Threads : unlink_second(t)

SpecRace == Init /\ [][NextRace]_vars

\* Cascades over a forest whose members unlink while the cascades run.  The
\* links are made first, in the order of the pairs; the threads are taken in
\* order, a cascade starts on an actor nobody tried to stop yet, and an
\* unlink starts while some cascade is in progress.
NextCascade ==
    \/ \E p \in AcyclicPairs :
          /\ \A t \in Threads : thread[t].op = "idle"
          /\ \A a \in Actors : stops[a] = 0
          /\ \A q \in linked : q[1] < p[1] \/ (q[1] = p[1] /\ q[2] < p[2])
          /\ link(p[1], p[2])
    \/ \E t \in Threads, p \in linked :
          /\ \A u \in Threads : u < t => thread[u].op # "idle"
          /\ \E u \in Threads : thread[u].op = "terminate"
          /\ unlink_first(t, p[1], p[2])
    \/ \E t \in Threads : unlink_second(t)
    \/ \E t \in Threads, a \in Actors :
          /\ \A u \in Threads : u < t => thread[u].op # "idle"
          /\ stops[a] = 0
          /\ terminate(t, a)
    \/ \E t \in Threads, c \in Actors : terminate_child(t, c)
    \/ \E t \in Threads : terminate_return(t)

SpecCascade == Init /\ [][NextCascade]_vars

FairSpecCascade ==
    /\ SpecCascade
    /\ \A t \in Threads : WF_vars(terminate_return(t))
    /\ \A t \in Threads, c \in Actors : WF_vars(terminate_child(t, c))

\* ------------------------------------------------------------------ claims
\* C1: after self.link(supervisor) completes, supervisor is in self's parents
\* and self is in supervisor's children.
C1_LinkMakesParentAndChild ==
    [][\A p \in Pairs :
          link(p[1], p[2]) =>
              /\ p[2] \in parents'[p[1]]
              /\ p[1] \in children'[p[2]]]_vars

\* The only calls made so far between child c and parent p are c.link(p) and
\* c.unlink(p), the same number of each.
MatchedCalls(c, p) ==
    /\ hist[<<c, p>>].links = hist[<<c, p>>].unlinks
    /\ hist[<<p, c>>].links = 0
    /\ hist[<<p, c>>].unlinks = 0

\* C2: after equally many c.link(p) and c.unlink(p) calls, and no other call
\* between the two, c is not in p's children and p is not in c's parents.
C2_MatchedLinkUnlink ==
    \A q \in Pairs :
        MatchedCalls(q[1], q[2]) =>
            /\ q[1] \notin children[q[2]]
            /\ q[2] \notin parents[q[1]]

C2_Witness ==
    \E q \in Pairs :
        /\ MatchedCalls(q[1], q[2])
        /\ hist[q].links = 2
        /\ hist[q].unlinks = 2

\* the actors linked under supervisor a, directly or through other actors
RECURSIVE Below(_)
Below(a) ==
    LET kids == {c \in Actors : <<c, a>> \in linked}
    IN kids \cup UNION {Below(c) : c \in kids}

\* an Exit signal has reached the signal port of actor d
GotExit(d) == signal[d] # <<>> \/ status[d] >= Stopping

\* C3: when a.terminate() returns, and no link or unlink ran meanwhile, every
\* actor linked under a, directly or transitively, has received Exit.
C3_CascadeReachesDescendants ==
    [][\A t \in Threads :
          (/\ terminate_return(t)
           /\ Len(thread[t].stack) = 1
           /\ ~thread[t].dirty)
              => \A d \in Below(thread[t].a) : GotExit(d)]_vars

CallOutcomes == {"Success", "NoReply", "Timeout"}

\* C4: every call that has ended has ended in one of Success, NoReply and
\* Timeout.
C4_ExactlyOneOfThree ==
    \A c \in Calls :
        calls[c].st = "done" => calls[c].outcome \in CallOutcomes

\* C4, amended: a call on a closed port returns the messaging error and none
\* of the three outcomes; a call whose message the port accepted has no
\* outcome while it is pending, ends in exactly one of Success, NoReply and
\* Timeout, and keeps that outcome.
C4_OutcomeOfCall ==
    /\ [](\A c \in Calls :
            /\ calls[c].st = "done"
                   => calls[c].outcome \in CallOutcomes \cup {"MessagingErr"}
            /\ calls[c].st # "done" => calls[c].outcome = "none")
    /\ [][\A c \in Calls :
            /\ \A a \in Receivers, t \in BOOLEAN :
                   call(c, a, t) =>
                       IF rx_open[a]
                       THEN calls'[c].st = "pending"
                       ELSE /\ calls'[c].st = "done"
                            /\ calls'[c].outcome = "MessagingErr"
                            /\ message' = message
            /\ (calls[c].st = "pending" /\ calls'[c].st = "done")
                   => calls'[c].outcome \in CallOutcomes
            /\ calls[c].st = "done"
                   => /\ calls'[c].st = "done"
                      /\ calls'[c].outcome = calls[c].outcome]_vars

C4_Witness ==
    \E c \in Calls :
        /\ calls[c].st = "done"
        /\ calls[c].outcome = "MessagingErr"
        /\ ~rx_open[calls[c].target]
        /\ status[calls[c].target] = Stopped

\* C5: a pending call whose receiver's loop has ended without a reply written
\* to its slot eventually ends in NoReply, with or without a timeout.
C5_NoReplyWhenLoopExits ==
    \A c \in Calls :
        (/\ calls[c].st = "pending"
         /\ ~rx_open[calls[c].target]
         /\ calls[c].slot # "written")
            ~> (calls[c].outcome = "NoReply")

C5_Witness ==
    \E c \in Calls :
        /\ calls[c].outcome = "NoReply"
        /\ calls[c].slot = "closed"
        /\ ~calls[c].timeout
        /\ ~rx_open[calls[c].target]

\* C6: a call that ends while its slot is neither written nor dropped ends in
\* Timeout; a Timeout outcome never changes; a reply written after the caller
\* timed out fails as a write and leaves the caller's outcome and the
\* receiver's status and ports as they were.
C6_TimeoutThenLateReply ==
    [][\A c \in Calls :
          /\ (/\ calls[c].st = "pending"
              /\ calls[c].slot \in {"queued", "held"}
              /\ calls'[c].st = "done")
                 => calls'[c].outcome = "Timeout"
          /\ calls[c].outcome = "Timeout" => calls'[c].outcome = "Timeout"
          /\ \A a \in Receivers :
                 (HandlerReply(a, c) /\ calls[c].st = "done")
                     => /\ calls'[c].late
                        /\ calls'[c].outcome = calls[c].outcome
                        /\ ret' = "Err"
                        /\ UNCHANGED <<status, rx_open, signal, message>>]_vars

C6_Witness ==
    \E c \in Calls :
        /\ calls[c].outcome = "Timeout"
        /\ calls[c].late
        /\ rx_open[calls[c].target]
        /\ status[calls[c].target] = Unstarted

\* C7: the messages one sender sent to an actor are held by its message port
\* in the order they were sent, all of them after the last one of that sender
\* the port has yielded, whatever other senders put in between.
C7_FifoPerSender ==
    \A a \in Actors :
        \A i \in 1..Len(message[a]) :
            /\ message[a][i].n > yielded[a][message[a][i].from]
            /\ \A j \in 1..Len(message[a]) :
                   (i < j /\ message[a][i].from = message[a][j].from)
                       => message[a][i].n < message[a][j].n

C7_Witness ==
    \E a \in Receivers, s \in Senders, t \in Senders :
        /\ s # t
        /\ yielded[a][s] = 1
        /\ message[a] = <<Boxed(t, 1), Boxed(s, 2)>>

\* what sending m on channel chan of actor a must do: on a closed port return
\* an error and leave every channel as it was, on an open port return Ok and
\* append exactly m; the other channels, status and tree never change
SendContract(a, chan, m, rest) ==
    /\ IF rx_open[a]
       THEN /\ ret' = "Ok"
            /\ chan' = [chan EXCEPT ![a] = Append(chan[a], m)]
       ELSE /\ ret' = "Err"
            /\ chan' = chan
    /\ UNCHANGED rest
    /\ UNCHANGED <<signal, status, rx_open, parents, children>>

\* C8: send_message, cast and send_supervisor_evt on a closed port return a
\* messaging error, enqueue nothing and change no status or tree state; on an
\* open port they succeed and append exactly that one message.
C8_SendOnClosedPortFails ==
    [][/\ \A s \in Senders, a \in Actors :
              SendMessage(s, a) =>
                  SendContract(a, message, Boxed(s, sent[s][a] + 1), supervision)
       /\ \A s \in Senders, a \in Actors :
              cast(s, a) =>
                  SendContract(a, message, Boxed(s, sent[s][a] + 1), supervision)
       /\ \A a \in Actors, w \in Actors :
              SendSupervisorEvt(a, ActorTerminated(w)) =>
                  SendContract(a, supervision, ActorTerminated(w), message)]_vars

C8_Witness ==
    \E a \in Receivers, s \in Senders :
        /\ ~rx_open[a]
        /\ ret = "Err"
        /\ sent[s][a] > 0
        /\ message[a] = <<>>

\* C9: stop() can always be called and returns nothing; when the signal port
\* is full or its receiver is gone the signal queue is left unchanged; the
\* signal queue never holds more than SignalCapacity signals.
C9_StopBestEffort ==
    /\ [](\A a \in Actors :
            /\ Len(signal[a]) <= SignalCapacity
            /\ (nops < MaxOps => ENABLED stop(a)))
    /\ [][\A a \in Actors :
            stop(a) =>
                /\ ret' = "unit"
                /\ (~rx_open[a] \/ Len(signal[a]) = SignalCapacity)
                       => signal' = signal
                /\ UNCHANGED <<status, rx_open>>]_vars

C9_Witness ==
    \E a \in Receivers :
        /\ rx_open[a]
        /\ status[a] = Unstarted
        /\ stops[a] > SignalCapacity
        /\ Len(signal[a]) = SignalCapacity
        /\ ret = "unit"

\* what a notification of evt by actor a must do to the supervision port of
\* every actor p other than skip
NotifyContract(a, evt, skip) ==
    \A p \in Actors \ skip :
        supervision'[p] =
            IF p \in parents[a] /\ rx_open[p]
            THEN Append(supervision[p], evt)
            ELSE supervision[p]

\* C10: a notification appends the event to the supervision port of every
\* current parent whose port is open, also when the port of another parent
\* is closed, and to no other port.
C10_NotifyEveryParent ==
    [][\A a \in Actors :
          /\ notify_supervisors(a, ActorStarted(a))
                 => NotifyContract(a, ActorStarted(a), {})
          /\ LoopExit(a) => NotifyContract(a, ActorTerminated(a), {a})]_vars

C10_Witness ==
    /\ notified.ok # {}
    /\ notified.err # {}
    /\ ret = "unit"
    /\ \E a \in Actors : \A p \in notified.ok :
           /\ p \in parents[a]
           /\ supervision[p] # <<>>
           /\ supervision[p][Len(supervision[p])] = ActorStarted(a)

\* C11: a status at Stopping or Stopped never moves back; once any clone has
\* observed Stopping or Stopped, no get_status on any clone returns
\* Unstarted, Starting, Running or Upgrading; once Stopped was observed the
\* status never changes again.
C11_StatusOneWay ==
    [][\A a \in Actors :
          /\ status[a] >= Stopping => status'[a] >= status[a]
          /\ \A t \in Threads :
                 (GetStatus(t, a) /\ seen[a] >= Stopping)
                     => obs'.s \in {Stopping, Stopped}
          /\ seen[a] = Stopped => status'[a] = Stopped]_vars

C11_Witness ==
    \E a \in Receivers :
        /\ {Running, Upgrading, Stopping} \subseteq stored[a]
        /\ seen[a] = Stopped
        /\ obs.a = a
        /\ obs.s = Stopped

\* the statuses that follow s in the lifecycle Unstarted -> Starting ->
\* Running <-> Upgrading -> Stopping -> Stopped, s included
Later(s) ==
    IF s \in {Running, Upgrading} THEN Running..Stopped ELSE s..Stopped

\* C12: a get_status() on any clone, made after set_status(s) returned,
\* returns s or a status that follows s in the lifecycle, whichever clone and
\* thread reads; Running and Upgrading follow each other.
C12_ClonesShareStatus ==
    [][\A t \in Threads, a \in Actors :
          GetStatus(t, a) =>
              /\ \A s \in stored[a] : obs'.s \in Later(s)
              /\ obs'.s = status[a]]_vars

C12_Witness ==
    \E a \in Receivers :
        /\ stored[a] = {Unstarted, Starting, Running}
        /\ obs.a = a
        /\ obs.t # 1
        /\ obs.s = Running
        /\ seen[a] = Running

\* the supervision events reporting the termination of a that the supervision
\* port of actor p holds
TerminationsOf(a, p) ==
    Cardinality({i \in 1..Len(supervision[p]) :
                    supervision[p][i] = ActorTerminated(a)})

\* b is linked under a and a under p, a is Running, and a thread has entered
\* a.terminate() and has not reached any child yet
TerminateEntered(b, a, p) ==
    /\ <<b, a>> \in linked
    /\ <<a, p>> \in linked
    /\ status[a] = Running
    /\ rx_open[b] /\ rx_open[p]
    /\ \E t \in Threads :
           /\ thread[t].op = "terminate"
           /\ thread[t].stack = <<Frame(a)>>

\* a is Stopping or Stopped, b has received Exit, and the supervisor p, if
\* its loop still runs, holds exactly one event reporting a's termination
TerminateDone(b, a, p) ==
    /\ status[a] >= Stopping
    /\ GotExit(b)
    /\ rx_open[p] => TerminationsOf(a, p) = 1

\* C13: with a Running, b linked under a and a linked under p, a.terminate()
\* leads to a Stopping or Stopped, b holding an Exit signal and p holding
\* exactly one event reporting a's termination; p never holds two.
C13_TerminateScenario ==
    /\ \A b \in Actors, a \in Actors, p \in Actors :
           TerminateEntered(b, a, p) ~> TerminateDone(b, a, p)
    /\ [](\A a \in Actors, p \in Actors : TerminationsOf(a, p) <= 1)

\* C14: a send of the interval task that fails ends its loop and enqueues
\* nothing, a status check that finds the actor not active ends it too, a
\* finished task attempts no further send, and a task whose actor's port is
\* closed eventually finishes.
C14_IntervalEndsWhenActorGone ==
    /\ [][\A a \in Actors :
            /\ (IntervalSend(a) /\ ~rx_open[a])
                   => /\ timers'[a].pc = "done"
                      /\ message' = message
            /\ (IntervalCheck(a) /\ status[a] \notin ACTIVE_STATES)
                   => timers'[a].pc = "done"
            /\ timers[a].pc = "done" => timers'[a] = timers[a]]_vars
    /\ [](\A a \in Actors :
            timers[a].pc = "done" => ~ENABLED IntervalSend(a))
    /\ \A a \in Actors :
           (timers[a].pc \in {"check", "sleep"} /\ ~rx_open[a])
               ~> (timers[a].pc = "done")

C14_Witness ==
    \E a \in Receivers :
        /\ timers[a].pc = "done"
        /\ timers[a].ended = "send"
        /\ timers[a].sentAny
        /\ ~rx_open[a]

\* C20: the interval task reads the status only in its loop condition: a
\* check that finds the actor not active finishes the task without a send,
\* so a task that starts on an actor that is not active never sends; a send
\* on an open port enqueues whatever the status is; the task enqueues at most
\* one message while the actor is Stopping, and after that one only checks
\* the status and finishes.
C20_StatusCheckedBeforeSleep ==
    /\ [](\A a \in Actors :
            /\ timers[a].late <= 1
            /\ timers[a].late = 1 => timers[a].pc \in {"check", "done"}
            /\ timers[a].ended = "status" /\ ~timers[a].sentAny
                   => Tick \notin {message[a][i] : i \in 1..Len(message[a])})
    /\ [][\A a \in Actors :
            /\ (IntervalCheck(a) /\ status[a] \notin ACTIVE_STATES)
                   => /\ timers'[a].pc = "done"
                      /\ timers'[a].sentAny = timers[a].sentAny
                      /\ message' = message
            /\ (IntervalSend(a) /\ rx_open[a])
                   => message'[a] = Append(message[a], Tick)
            /\ timers[a].pc = "done" => message'[a] # Append(message[a], Tick)
         ]_vars

C20_Witness ==
    \E a \in Receivers :
        /\ timers[a].pc = "done"
        /\ timers[a].ended = "status"
        /\ timers[a].late = 1
        /\ status[a] = Stopping
        /\ rx_open[a]

\* C15: call_and_forward never returns an error to its caller.
C15_FailuresOnlyInTask ==
    \A c \in Calls : forwards[c].direct # "MessagingErr"

\* what the task of call c must end with, given the outcome of its call
TaskResult(c) ==
    IF calls[c].outcome = "Success" THEN {"Success(Ok)", "Success(Err)"}
    ELSE {calls[c].outcome}

\* C15, amended: call_and_forward on a closed port returns the messaging
\* error to its caller, enqueues nothing and makes no task; on an open port
\* it returns the task, and every later failure is in the task's result:
\* NoReply, Timeout, or Success holding the error of the forwarding send when
\* the forward target's port is closed.
C15_ForwardFailures ==
    /\ [](\A c \in Calls :
            /\ forwards[c].direct = "MessagingErr"
                   => forwards[c].task = "none"
            /\ forwards[c].direct = "Ok" /\ forwards[c].task # "running"
                   => /\ calls[c].outcome \in CallOutcomes
                      /\ forwards[c].task \in TaskResult(c))
    /\ [][\A c \in Calls :
            /\ \A a \in Receivers, f \in Receivers, t \in BOOLEAN :
                   call_and_forward(c, a, f, t) =>
                       IF rx_open[a]
                       THEN /\ forwards'[c].direct = "Ok"
                            /\ forwards'[c].task = "running"
                       ELSE /\ forwards'[c].direct = "MessagingErr"
                            /\ message' = message
            /\ (forward_task(c) /\ calls[c].outcome = "Success")
                   => /\ forwards'[c].task =
                            IF rx_open[forwards[c].to]
                            THEN "Success(Ok)" ELSE "Success(Err)"
                      /\ ~rx_open[forwards[c].to] => message' = message
            /\ forwards[c].direct # "none"
                   => forwards'[c].direct = forwards[c].direct]_vars

C15_Witness ==
    \E c \in Calls :
        /\ forwards[c].direct = "Ok"
        /\ forwards[c].task = "Success(Err)"
        /\ calls[c].outcome = "Success"
        /\ ~rx_open[forwards[c].to]

\* what a terminate() entered on actor a must do to the signal ports: one
\* attempt to send Exit to a exactly when a is Unstarted, Starting, Running
\* or Upgrading, which enqueues when the port is open and has room, and
\* nothing to any other actor
SelfExit(a) ==
    LET attempt == status[a] \in {Unstarted, Starting, Running, Upgrading}
    IN /\ stops' = [stops EXCEPT ![a] = IF attempt THEN @ + 1 ELSE @]
       /\ signal' = [signal EXCEPT ![a] =
             IF attempt /\ rx_open[a] /\ Len(@) < SignalCapacity
             THEN Append(@, "Exit") ELSE @]

\* the innermost terminate() thread t is in
Top(t) == thread[t].stack[Len(thread[t].stack)]

\* C16: a terminate() entered on an actor, from outside or by the cascade,
\* attempts to send Exit to it exactly when its status is Unstarted,
\* Starting, Running or Upgrading; the cascade enters terminate() only on
\* actors of the children set, a terminate() returns only when it was entered
\* on every actor of that set, and it can return as soon as that is so,
\* whatever the status of those actors.
C16_TerminateSelfThenChildren ==
    [][\A t \in Threads :
          LET before == Len(thread[t].stack)
              after == Len(thread'[t].stack)
          IN /\ after > before
                   => /\ SelfExit(thread'[t].stack[after].actor)
                      /\ before > 0
                            => thread'[t].stack[after].actor
                                  \in children[Top(t).actor]
             /\ after < before
                   => children[Top(t).actor] \subseteq Top(t).visited
             /\ (/\ before > 0
                 /\ children[Top(t).actor] \subseteq Top(t).visited)
                   => ENABLED terminate_return(t)]_vars

C16_Witness ==
    \E a \in Receivers, b \in Actors \ Receivers, t \in Threads :
        /\ thread[t].stack = <<[actor |-> b, visited |-> {a}], Frame(a)>>
        /\ \A p \in Pairs : hist[p].links = IF p = <<b, a>> THEN 1 ELSE 0
        /\ nops = 3
        /\ stops = [c \in Actors |-> IF c \in {a, b} THEN 1 ELSE 0]
        /\ status[a] = Stopping

\* C17: a link of a pair that is linked leaves every parents and children
\* set as it was, and an unlink of a pair that is not linked changes no set
\* and returns unit.
C17_LinkUnlinkIdempotent ==
    [][\A p \in Pairs :
          /\ (p \in linked /\ link(p[1], p[2]))
                => /\ parents' = parents
                   /\ children' = children
          /\ (p \notin linked /\ unlink(p[1], p[2]))
                => /\ parents' = parents
                   /\ children' = children
                   /\ ret' = "unit"]_vars

C17_Witness ==
    \E p \in Pairs, q \in Pairs :
        /\ hist[p].links = 2
        /\ hist[p].unlinks = 0
        /\ hist[q].links = 0
        /\ hist[q].unlinks = 1
        /\ q[2] = p[2]
        /\ p \in linked
        /\ q \notin linked

\* C18: whenever no link or unlink call is in progress, Y is in X.parents
\* exactly when X is in Y.children, for all actors X and Y, also after link
\* and unlink calls of different threads on the same pair interleaved.
C18_EdgesMirrored ==
    (\A t \in Threads : thread[t].op = "idle")
        => \A x \in Actors, y \in Actors :
              y \in parents[x] <=> x \in children[y]

\* C19: over a forest every terminate() that is entered returns, and the
\* cascade is never deeper than the number of actors, also when members of
\* the forest unlink while the cascade is in progress.
C19_TerminateReturns ==
    /\ \A t \in Threads :
          thread[t].op = "terminate" ~> thread[t].op # "terminate"
    /\ [](\A t \in Threads : Len(thread[t].stack) <= NumActors)

C19_Witness ==
    \E t \in Threads :
        /\ thread[t].op = "terminate"
        /\ thread[t].dirty
        /\ Len(thread[t].stack) = 1
        /\ Top(t).visited # {}
        /\ children[Top(t).actor] = {}
        /\ ENABLED terminate_return(t)

====
